---- MODULE Spec2Model ----
(***************************************************************************)
(* Model of the notes front end: the App component (App.js) with its       *)
(* handlers, the API client (api/notesApi.js) and the REST backend the     *)
(* client talks to.  Strings are sequences of one-character strings so     *)
(* that String.prototype.trim is computed, not assumed.                    *)
(***************************************************************************)
EXTENDS Integers, Sequences, FiniteSets, TLC

\* ------------------------------------------------------------------ bounds

\* Largest updated_at the backend clock assigns; a write needs clock < MaxTime.
MaxTime == 1

\* ------------------------------------------------------------- value space

\* selectedId === null
NoId == 0
\* a note without updated_at (undefined / null)
NoTime == -1
\* a note field (title, content) that is undefined / null
Null == <<"null">>

\* What the user types into the title input (nothing, only a space, a
\* title with a leading space) and into the content textarea.
TitleInputs == { <<>>, <<" ">>, <<" ", "a">> }
ContentInputs == { <<"x">> }

\* ------------------------------------------------------ pure functions

IsSpace(c) == c = " "

RECURSIVE TrimStart(_)
TrimStart(s) ==
    IF s = <<>> THEN s
    ELSE IF IsSpace(Head(s)) THEN TrimStart(Tail(s)) ELSE s

RECURSIVE TrimEnd(_)
TrimEnd(s) ==
    IF s = <<>> THEN s
    ELSE IF IsSpace(s[Len(s)]) THEN TrimEnd(SubSeq(s, 1, Len(s) - 1)) ELSE s

\* String.prototype.trim
Trim(s) == TrimEnd(TrimStart(s))

\* OrEmpty without the fallback: a missing field stays missing.
OrEmptyKeepsNull(v) == v

\* value ?? ''
OrEmpty(v) == IF v = Null THEN <<>> ELSE v

\* new Date(updated_at || 0).getTime()
TimeOf(note) == IF note.updated_at = NoTime THEN 0 ELSE note.updated_at

\* The comparator with its operands swapped: oldest first.
compareNotesByUpdatedAtAsc(a, b) == TimeOf(a) - TimeOf(b)

\* compareNotesByUpdatedAtDesc(a, b): negative when a sorts before b.
compareNotesByUpdatedAtDesc(a, b) == TimeOf(b) - TimeOf(a)

\* Insert note n into the already sorted list s behind every element that
\* does not compare greater than it (Array.prototype.sort is stable).
RECURSIVE InsertSorted(_, _)
InsertSorted(n, s) ==
    IF s = <<>> THEN <<n>>
    ELSE IF compareNotesByUpdatedAtDesc(Head(s), n) <= 0
         THEN <<Head(s)>> \o InsertSorted(n, Tail(s))
         ELSE <<n>> \o s

\* [...list].sort(compareNotesByUpdatedAtDesc)
RECURSIVE SortNotes(_)
SortNotes(list) ==
    IF list = <<>> THEN <<>>
    ELSE InsertSorted(list[Len(list)], SortNotes(SubSeq(list, 1, Len(list) - 1)))

\* list.find(n => String(n.id) === String(id)) as an index, 0 when absent.
RECURSIVE FindIndex(_, _, _)
FindIndex(list, id, i) ==
    IF i > Len(list) THEN 0
    ELSE IF list[i].id = id THEN i ELSE FindIndex(list, id, i + 1)

HasId(list, id) == FindIndex(list, id, 1) # 0

\* ---------------------------------------------------------- API client

\* URLs are strings of symbols: "/" , " " and other single characters, and
\* fixed texts that hold no space and do not end in a slash.
LocalOrigin == <<"http://localhost:3001">>
NotesPath == <<"/api/notes">>

\* process.env.NAME || '' : an unset variable reads as the empty string
NoEnv == [REACT_APP_API_BASE |-> <<>>, REACT_APP_BACKEND_URL |-> <<>>]
Envs ==
    [REACT_APP_API_BASE : { <<>>, <<" ">>, <<" ", "h", "/", "n">> },
     REACT_APP_BACKEND_URL :
       { <<>>, <<" ">>, <<"b">>, <<"b", "/">>, <<"b", "/", "/">>, <<"b", "/", " ">> }]

\* s.replace(/\/$/, '')
WithoutTrailingSlash(s) ==
    IF s # <<>> /\ s[Len(s)] = "/" THEN SubSeq(s, 1, Len(s) - 1) ELSE s

\* a || b for strings
OrElse(a, b) == IF a # <<>> THEN a ELSE b

\* notesApi.js: BACKEND_ORIGIN and API_BASE_URL for the environment e
BACKEND_ORIGIN(e) == OrElse(Trim(e.REACT_APP_BACKEND_URL), LocalOrigin)
API_BASE_URL(e) ==
    OrElse(Trim(e.REACT_APP_API_BASE),
           WithoutTrailingSlash(BACKEND_ORIGIN(e)) \o NotesPath)

\* App.js: const API_BASE_URL = 'http://localhost:3001/api/notes'
App_API_BASE_URL == LocalOrigin \o NotesPath

\* The two modules that declare the API functions.
Modules == {"notesApi", "App"}
BaseUrlOf(module, e) ==
    IF module = "notesApi" THEN API_BASE_URL(e) ELSE App_API_BASE_URL

\* `${API_BASE_URL}/${encodeURIComponent(noteId)}` for a numeric id
NoteUrl(base, noteId) == base \o <<"/", ToString(noteId)>>

\* A missing property of a JSON body (body?.detail on a body without it).
Undefined == "undefined"

\* what fetch rejects with on a network failure or an abort
FetchFailedMessage == "Failed to fetch"
\* what response.json() rejects with on a body that is not JSON
JsonSyntaxMessage == "Unexpected token in JSON"

\* response.status === 204
NoContent == 204

\* JSON values the client reads: an array of notes, an object (a created
\* note with its id, or an error body with detail / message), or null.
JsonArray(items) ==
    [type |-> "array", items |-> items, id |-> NoId,
     detail |-> Undefined, message |-> Undefined]
JsonObject(id, detail, message) ==
    [type |-> "object", items |-> <<>>, id |-> id,
     detail |-> detail, message |-> message]
JsonNull == [JsonObject(NoId, Undefined, Undefined) EXCEPT !.type = "null"]

\* What fetch() settled with.  rejected: the promise rejected (network
\* failure, abort); otherwise an HTTP response with its status, whether the
\* content type includes application/json, whether the body parses as JSON,
\* the parsed body and the raw text.
HttpResponse(status, isJson, parses, body, text) ==
    [rejected |-> FALSE, status |-> status, isJson |-> isJson,
     parses |-> parses, body |-> body, text |-> text]
Rejected ==
    [HttpResponse(0, FALSE, FALSE, JsonNull, "") EXCEPT !.rejected = TRUE]

\* response.ok
IsOk(response) == response.status >= 200 /\ response.status <= 299

Truthy(v) == v # Undefined /\ v # ""

Returned(value) == [threw |-> FALSE, value |-> value, message |-> ""]
Threw(message) == [threw |-> TRUE, value |-> JsonNull, message |-> message]

\* `Request failed (${response.status})`
FallbackMessage(response) ==
    "Request failed (" \o ToString(response.status) \o ")"

\* The error message taken from body.message only, body.detail ignored.
parseJsonOrThrowMessageNoDetail(response) ==
    IF response.isJson /\ response.parses /\ Truthy(response.body.message)
    THEN response.body.message
    ELSE FallbackMessage(response)

\* The error message with body.message tried before body.detail.
parseJsonOrThrowMessageSwapped(response) ==
    IF response.isJson
    THEN IF ~response.parses THEN FallbackMessage(response)
         ELSE IF Truthy(response.body.message) THEN response.body.message
         ELSE IF Truthy(response.body.detail) THEN response.body.detail
         ELSE FallbackMessage(response)
    ELSE IF response.text # "" THEN response.text
         ELSE FallbackMessage(response)

parseJsonOrThrowMessage(response) ==
    IF response.isJson
    THEN IF ~response.parses THEN FallbackMessage(response)
         ELSE IF Truthy(response.body.detail) THEN response.body.detail
         ELSE IF Truthy(response.body.message) THEN response.body.message
         ELSE FallbackMessage(response)
    ELSE IF response.text # "" THEN response.text
         ELSE FallbackMessage(response)

parseJsonOrThrow(response) ==
    IF ~IsOk(response) THEN Threw(parseJsonOrThrowMessage(response))
    ELSE IF ~response.isJson THEN Returned(JsonNull)
    ELSE IF response.parses THEN Returned(response.body)
    ELSE Threw(JsonSyntaxMessage)

\* await fetch(...) followed by parseJsonOrThrow: listNotes, createNote and
\* updateNote differ only in the request they send.
fetchThenParse(response) ==
    IF response.rejected THEN Threw(FetchFailedMessage)
    ELSE parseJsonOrThrow(response)

listNotes(response) == fetchThenParse(response)
getNote(response) == fetchThenParse(response)
createNote(response) == fetchThenParse(response)
updateNote(response) == fetchThenParse(response)

\* deleteNote without its check for 204: every response is parsed.
deleteNoteAlwaysParses(response) ==
    IF response.rejected THEN Threw(FetchFailedMessage)
    ELSE parseJsonOrThrow(response)

deleteNote(response) ==
    IF response.rejected THEN Threw(FetchFailedMessage)
    ELSE IF response.status = NoContent THEN Returned(JsonNull)
    ELSE parseJsonOrThrow(response)

\* e?.message || fallback
MessageOr(result, fallback) ==
    IF result.message # "" THEN result.message ELSE fallback

\* ------------------------------------------------------------------ state

VARIABLES
    \* useState of App
    notes, selectedId, draftTitle, draftContent,
    isLoadingList, isSaving, isDeleting, error,
    \* requests in flight, each with the handler that awaits it
    reqs,
    \* the backend: the notes it holds, its clock and the next id it assigns
    server, clock, nextId,
    \* the handler that ran last and what window.confirm returned in it
    last,
    \* process.env as the API client read it when its module was loaded
    env,
    \* the API call made last: its function, URL, response and outcome
    call

vars == <<notes, selectedId, draftTitle, draftContent,
          isLoadingList, isSaving, isDeleting, error,
          reqs, server, clock, nextId, last, env, call>>

ui == <<notes, selectedId, draftTitle, draftContent,
        isLoadingList, isSaving, isDeleting, error>>
backend == <<server, clock, nextId>>
api == <<env, call>>

Note(id, title, content, updated_at) ==
    [id |-> id, title |-> title, content |-> content, updated_at |-> updated_at]

\* A request in flight.  owner: the handler awaiting it ("init": the mount
\* effect, "save": handleSave, "delete": handleDelete).  id: the note the
\* request addresses.  title, content: the payload of the Save the request
\* belongs to.  next: the nextSelectedId of a list fetch.  phase: "sent"
\* until the backend has handled a create, update or delete, then "done".
\* snap: the notes the backend held when a list fetch was sent.  made: the
\* id the backend gave a created note.
Request(owner, kind, id, title, content, next) ==
    [owner |-> owner, kind |-> kind, id |-> id, title |-> title,
     content |-> content, next |-> next,
     phase |-> "sent", snap |-> {}, made |-> NoId]

ListRequest(owner, title, content, next, held) ==
    [Request(owner, "list", NoId, title, content, next) EXCEPT !.snap = held]

\* op: the handler or continuation that ran ("other": an edit of the draft
\* or a step of the backend).  confirm: what window.confirm returned in it.
\* id: the note selectNote switched to.
\* got: what a list load got from listNotes ("array" or "null").
Did(op, confirm, id) ==
    [op |-> op, confirm |-> confirm, id |-> id, got |-> "none"]

\* An API call: the module whose function was called, the function, the
\* note id it was given, the URL and method it fetched, what fetch settled
\* with and what the function returned or threw.
Call(module, fn, id, url, method, response, result) ==
    [module |-> module, fn |-> fn, id |-> id, url |-> url, method |-> method,
     response |-> response, result |-> result]
\* No call made; Awaiting(response): none made yet, and fetch will settle
\* with `response` when one is.
NoCall == [fn |-> "none"]
Awaiting(response) == [fn |-> "none", response |-> response]

\* The backend when the page is opened.  Either it holds one note whose
\* updated_at its clock has yet to reach (the next write ties with it), or
\* two notes, the older without updated_at and the newer without title and
\* content, written at the last time the clock assigns.
InitialBackends ==
    { [server |-> { Note(1, <<"a">>, <<"x">>, 1) }, clock |-> 0],
      [server |-> { Note(1, <<"a">>, <<>>, NoTime), Note(2, Null, Null, MaxTime) },
       clock |-> MaxTime] }

\* App as it is mounted: the useState initial values and the mount effect.
Mounted ==
    /\ notes = <<>>
    /\ selectedId = NoId
    /\ draftTitle = <<>>
    /\ draftContent = <<>>
    /\ isLoadingList = TRUE
    /\ isSaving = FALSE
    /\ isDeleting = FALSE
    /\ error = ""
    \* useEffect: refreshNotesAndKeepSelection(null)
    /\ \E b \in InitialBackends :
         /\ server = b.server
         /\ clock = b.clock
         /\ nextId = Cardinality(b.server) + 1
    /\ reqs = { ListRequest("init", <<>>, <<>>, NoId, server) }
    /\ last = Did("mount", "none", NoId)

Init ==
    /\ Mounted
    /\ env = NoEnv
    /\ call = NoCall

\* ------------------------------------------------------------ derived state

\* selectedNote (useMemo) as an index into notes, 0 for null
selectedIndex == FindIndex(notes, selectedId, 1)

\* hasUnsavedChanges comparing the title only.
hasUnsavedChangesTitleOnly ==
    IF selectedIndex = 0
    THEN Trim(draftTitle) # <<>>
    ELSE draftTitle # OrEmpty(notes[selectedIndex].title)

hasUnsavedChanges ==
    IF selectedIndex = 0
    THEN Trim(draftTitle) # <<>> \/ Trim(draftContent) # <<>>
    ELSE \/ draftTitle # OrEmpty(notes[selectedIndex].title)
         \/ draftContent # OrEmpty(notes[selectedIndex].content)

\* The Save button never disabled.
SaveAlwaysEnabled == TRUE

\* disabled={isSaving || isDeleting}
SaveEnabled == ~(isSaving \/ isDeleting)
\* disabled={selectedId == null || isSaving || isDeleting}
DeleteEnabled == ~(selectedId = NoId \/ isSaving \/ isDeleting)

\* ----------------------------------------------------------- user input

\* onChange of the title input: setDraftTitle(e.target.value)
EditTitle(v) ==
    /\ draftTitle' = v
    /\ last' = Did("other", "none", NoId)
    /\ UNCHANGED <<notes, selectedId, draftContent, isLoadingList, isSaving,
                   isDeleting, error, reqs, backend, api>>

\* onChange of the textarea: setDraftContent(e.target.value)
EditContent(v) ==
    /\ draftContent' = v
    /\ last' = Did("other", "none", NoId)
    /\ UNCHANGED <<notes, selectedId, draftTitle, isLoadingList, isSaving,
                   isDeleting, error, reqs, backend, api>>

\* What window.confirm returned in a handler that asks only when needed.
Confirmed(asked, ok) == IF ~asked THEN "none" ELSE IF ok THEN "yes" ELSE "no"

\* selectNote(notes[i]); ok is the user's answer should the handler ask.
selectNote(i, ok) ==
    /\ error' = ""
    /\ IF hasUnsavedChanges /\ ~ok
       THEN /\ last' = Did("selectNote", "no", NoId)
            /\ UNCHANGED <<selectedId, draftTitle, draftContent>>
       ELSE /\ last' = Did("selectNote", Confirmed(hasUnsavedChanges, ok),
                           notes[i].id)
            /\ selectedId' = notes[i].id
            /\ draftTitle' = OrEmpty(notes[i].title)
            /\ draftContent' = OrEmpty(notes[i].content)
    /\ UNCHANGED <<notes, isLoadingList, isSaving, isDeleting, reqs, backend, api>>

handleNewNote(ok) ==
    /\ error' = ""
    /\ last' = Did("handleNewNote", Confirmed(hasUnsavedChanges, ok), NoId)
    /\ IF hasUnsavedChanges /\ ~ok
       THEN UNCHANGED <<selectedId, draftTitle, draftContent>>
       ELSE /\ selectedId' = NoId
            /\ draftTitle' = <<>>
            /\ draftContent' = <<>>
    /\ UNCHANGED <<notes, isLoadingList, isSaving, isDeleting, reqs, backend, api>>

\* The title taken as typed, not trimmed.
SaveTitleUntrimmed == draftTitle

\* const title = draftTitle.trim(); const content = draftContent;
SaveTitle == Trim(draftTitle)
SaveContent == draftContent

\* handleSave creating a note whatever is selected.
SaveRequestAlwaysCreates ==
    Request("save", "create", NoId, SaveTitle, SaveContent, NoId)

\* The request handleSave sends: createNote({title, content}) when nothing
\* is selected, else updateNote(selectedId, {title, content}).
SaveRequest ==
    IF selectedId = NoId
    THEN Request("save", "create", NoId, SaveTitle, SaveContent, NoId)
    ELSE Request("save", "update", selectedId, SaveTitle, SaveContent, selectedId)

\* handleSave up to its first await (the Save button is enabled).
handleSave ==
    /\ SaveEnabled
    /\ last' = Did("handleSave", "none", NoId)
    /\ IF SaveTitle = <<>>
       THEN /\ isSaving' = FALSE
            /\ error' = "Title is required."
            /\ UNCHANGED reqs
       ELSE /\ isSaving' = TRUE
            /\ error' = ""
            /\ reqs' = reqs \cup {SaveRequest}
    /\ UNCHANGED <<notes, selectedId, draftTitle, draftContent, isLoadingList,
                   isDeleting, backend, api>>

\* handleDelete without its check of selectedId.
DeleteNeverReturnsEarly == FALSE

\* if (selectedId == null) return;
DeleteReturnsEarly == selectedId = NoId

\* handleDelete removing the note from the displayed list at once, before
\* the backend has answered.
handleDeleteOptimistic(ok) ==
    /\ ~(isSaving \/ isDeleting)
    /\ error' = ""
    /\ last' = Did("handleDelete", Confirmed(~DeleteReturnsEarly, ok), NoId)
    /\ IF DeleteReturnsEarly \/ ~ok
       THEN UNCHANGED <<isDeleting, reqs, notes>>
       ELSE /\ isDeleting' = TRUE
            /\ notes' = SelectSeq(notes, LAMBDA n : n.id # selectedId)
            /\ reqs' = reqs \cup
                 {Request("delete", "delete", selectedId, <<>>, <<>>, NoId)}
    /\ UNCHANGED <<selectedId, draftTitle, draftContent, isLoadingList,
                   isSaving, backend, api>>

\* handleDelete up to its first await.  The handler checks selectedId itself
\* (the button's disabled attribute repeats that check), so it is run here
\* whenever no Save or Delete is outstanding.
handleDelete(ok) ==
    /\ ~(isSaving \/ isDeleting)
    /\ error' = ""
    /\ last' = Did("handleDelete", Confirmed(~DeleteReturnsEarly, ok), NoId)
    /\ IF DeleteReturnsEarly \/ ~ok
       THEN UNCHANGED <<isDeleting, reqs>>
       ELSE /\ isDeleting' = TRUE
            /\ reqs' = reqs \cup
                 {Request("delete", "delete", selectedId, <<>>, <<>>, NoId)}
    /\ UNCHANGED <<notes, selectedId, draftTitle, draftContent, isLoadingList,
                   isSaving, backend, api>>

\* ---------------------------------------------------------------- backend

Holds(id) == \E n \in server : n.id = id

Handled(r) == [r EXCEPT !.phase = "done"]

\* POST {base}: the backend stores a new note under a fresh id.
ServerCreate(r) ==
    /\ r \in reqs /\ r.kind = "create" /\ r.phase = "sent"
    /\ clock < MaxTime
    /\ server' = server \cup {Note(nextId, r.title, r.content, clock + 1)}
    /\ clock' = clock + 1
    /\ nextId' = nextId + 1
    /\ reqs' = (reqs \ {r}) \cup {[Handled(r) EXCEPT !.made = nextId]}
    /\ last' = Did("other", "none", NoId)
    /\ UNCHANGED <<ui, api>>

\* PUT {base}/{id}: the backend replaces the note's title and content.
ServerUpdate(r) ==
    /\ r \in reqs /\ r.kind = "update" /\ r.phase = "sent"
    /\ Holds(r.id) /\ clock < MaxTime
    /\ server' = { n \in server : n.id # r.id }
                   \cup {Note(r.id, r.title, r.content, clock + 1)}
    /\ clock' = clock + 1
    /\ reqs' = (reqs \ {r}) \cup {Handled(r)}
    /\ last' = Did("other", "none", NoId)
    /\ UNCHANGED <<ui, nextId, api>>

\* DELETE {base}/{id}
ServerDelete(r) ==
    /\ r \in reqs /\ r.kind = "delete" /\ r.phase = "sent"
    /\ Holds(r.id)
    /\ server' = { n \in server : n.id # r.id }
    /\ reqs' = (reqs \ {r}) \cup {Handled(r)}
    /\ last' = Did("other", "none", NoId)
    /\ UNCHANGED <<ui, clock, nextId, api>>

\* Every order in which the backend may list the notes of S.
Orders(S) ==
    { p \in [1..Cardinality(S) -> S] :
        \A i, j \in 1..Cardinality(S) : i # j => p[i] # p[j] }

JsonResponse(status, body) == HttpResponse(status, TRUE, TRUE, body, "")
EmptyResponse(status) == HttpResponse(status, FALSE, FALSE, JsonNull, "")

\* What fetch settles with when the request did not succeed: an error
\* status with a JSON body, or a rejection.
Failures ==
    { JsonResponse(404, JsonObject(NoId, "not found", Undefined)),
      Rejected }

\* GET {base}: the backend lists what it holds, in any order, when the
\* request reaches it: as early as when it was sent, as late as just before
\* the response arrives.
Listings(r) == Orders(r.snap) \cup Orders(server)

\* What fetch settles with once the backend has handled request r.
Successes(r) ==
    CASE r.kind = "list" ->
           { JsonResponse(200, JsonArray(p)) : p \in Listings(r) }
             \cup {EmptyResponse(200)}
      [] r.kind = "create" ->
           { JsonResponse(201, JsonObject(r.made, Undefined, Undefined)),
             JsonResponse(201, JsonObject(NoId, Undefined, Undefined)),
             EmptyResponse(201) }
      [] r.kind = "update" ->
           { JsonResponse(200, JsonObject(r.id, Undefined, Undefined)) }
      [] r.kind = "delete" ->
           { EmptyResponse(NoContent),
             JsonResponse(200, JsonObject(NoId, Undefined, "deleted")) }

\* A mutating request is answered with a failure as long as the backend has
\* not handled it; a handled request may still lose its response.
Answers(r) ==
    IF r.kind = "list" THEN Successes(r) \cup Failures
    ELSE IF r.phase = "sent" THEN Failures
    ELSE Successes(r) \cup {Rejected}

\* ------------------------------------------- refreshNotesAndKeepSelection

\* The load keeping the list on display instead of the fetched one.
SortedOfDisplayed(list) == notes

\* const sorted = Array.isArray(list) ? [...list].sort(...) : [];
SortedOf(list) == IF list.type = "array" THEN SortNotes(list.items) ELSE <<>>

\* The selection after a load ignoring nextSelectedId: always the first note.
NewSelectedFirst(sorted, nextSelectedId) ==
    IF sorted # <<>> THEN sorted[1].id ELSE NoId

\* The selection after a load that keeps nextSelectedId without looking
\* for it in the list.
NewSelectedUnchecked(sorted, nextSelectedId) ==
    IF nextSelectedId # NoId THEN nextSelectedId
    ELSE IF sorted # <<>> THEN sorted[1].id ELSE NoId

\* stillExists ? nextSelectedId : (sorted[0]?.id ?? null)
NewSelected(sorted, nextSelectedId) ==
    IF nextSelectedId # NoId /\ HasId(sorted, nextSelectedId)
    THEN nextSelectedId
    ELSE IF sorted # <<>> THEN sorted[1].id ELSE NoId

\* nextNote?.title ?? '' and nextNote?.content ?? ''
NextTitle(sorted, id) ==
    IF HasId(sorted, id) THEN OrEmpty(sorted[FindIndex(sorted, id, 1)].title)
    ELSE <<>>
NextContent(sorted, id) ==
    IF HasId(sorted, id) THEN OrEmpty(sorted[FindIndex(sorted, id, 1)].content)
    ELSE <<>>

\* The handler without its finally block: the flag stays set.
FinallyKeepsFlag(owner) == UNCHANGED <<isSaving, isDeleting>>

\* The flag the awaiting handler resets in its finally block.
Finally(owner) ==
    /\ isSaving' = IF owner = "save" THEN FALSE ELSE isSaving
    /\ isDeleting' = IF owner = "delete" THEN FALSE ELSE isDeleting

\* The list fetch r settles with `response`: the rest of
\* refreshNotesAndKeepSelection, then the finally block of the handler that
\* awaited it.
ListSettled(r, response) ==
    /\ r \in reqs /\ r.kind = "list"
    /\ response \in Answers(r)
    /\ LET result == listNotes(response)
           sorted == SortedOf(result.value)
           newSelected == NewSelected(sorted, r.next)
       IN IF result.threw
          THEN /\ error' = MessageOr(result, "Failed to load notes")
               /\ last' = Did("listFailed", "none", NoId)
               /\ UNCHANGED <<notes, selectedId, draftTitle, draftContent>>
          ELSE /\ notes' = sorted
               /\ selectedId' = newSelected
               /\ draftTitle' = NextTitle(sorted, newSelected)
               /\ draftContent' = NextContent(sorted, newSelected)
               /\ last' = [Did("listLoaded", "none", NoId)
                             EXCEPT !.got = result.value.type]
               /\ UNCHANGED error
    /\ isLoadingList' = FALSE
    /\ Finally(r.owner)
    /\ reqs' = reqs \ {r}
    /\ UNCHANGED <<backend, api>>

\* ------------------------------------- handleSave / handleDelete, resumed

\* The API call a mutating request was made with, applied to its response.
Settle(r, response) ==
    CASE r.kind = "create" -> createNote(response)
      [] r.kind = "update" -> updateNote(response)
      [] r.kind = "delete" -> deleteNote(response)

\* The reload after a Save given the selection of the time the response
\* arrives instead of the created id or the id handleSave was called with.
ReloadTargetCurrent(r, result) ==
    IF r.kind = "delete" THEN NoId ELSE selectedId

\* The argument of the reload that follows a successful mutating request:
\* created?.id ?? null, selectedId (as handleSave saw it), or null.
ReloadTarget(r, result) ==
    CASE r.kind = "create" -> result.value.id
      [] r.kind = "update" -> r.id
      [] r.kind = "delete" -> NoId

\* The list fetch that follows the mutating request r; it remembers the
\* note r addressed and the id r's note was created under.
Reload(r, next) ==
    [ListRequest(r.owner, r.title, r.content, next, server)
       EXCEPT !.id = r.id, !.made = r.made]

FailedMessage(r) ==
    IF r.owner = "save" THEN "Failed to save note" ELSE "Failed to delete note"

\* The resumed handler reloading the list whether or not its request
\* succeeded.
MutationSettledAlwaysReloads(r, response) ==
    /\ r \in reqs /\ r.kind # "list"
    /\ response \in Answers(r)
    /\ LET result == Settle(r, response)
       IN /\ error' = IF result.threw THEN MessageOr(result, FailedMessage(r))
                      ELSE ""
          /\ last' = Did(IF result.threw THEN r.owner \o "Failed"
                         ELSE "mutationDone", "none", NoId)
          /\ reqs' = (reqs \ {r}) \cup
               {Reload(r, IF result.threw THEN NoId ELSE ReloadTarget(r, result))}
    /\ isLoadingList' = TRUE
    /\ UNCHANGED <<isSaving, isDeleting>>
    /\ UNCHANGED <<notes, selectedId, draftTitle, draftContent, backend, api>>

\* The create, update or delete request r settles with `response`: on
\* success the handler calls refreshNotesAndKeepSelection, which runs up to
\* its own await; on failure the handler's catch and finally blocks run.
MutationSettled(r, response) ==
    /\ r \in reqs /\ r.kind # "list"
    /\ response \in Answers(r)
    /\ LET result == Settle(r, response)
       IN IF result.threw
          THEN /\ error' = MessageOr(result, FailedMessage(r))
               /\ Finally(r.owner)
               /\ reqs' = reqs \ {r}
               /\ last' = Did(r.owner \o "Failed", "none", NoId)
               /\ UNCHANGED isLoadingList
          ELSE /\ error' = ""
               /\ isLoadingList' = TRUE
               /\ reqs' = (reqs \ {r}) \cup
                    {Reload(r, ReloadTarget(r, result))}
               /\ last' = Did("mutationDone", "none", NoId)
               /\ UNCHANGED <<isSaving, isDeleting>>
    /\ UNCHANGED <<notes, selectedId, draftTitle, draftContent, backend, api>>

\* ---------------------------------------------------------- specification

Next ==
    \/ \E v \in TitleInputs : EditTitle(v)
    \/ \E v \in ContentInputs : EditContent(v)
    \/ \E i \in 1..Len(notes), ok \in BOOLEAN : selectNote(i, ok)
    \/ \E ok \in BOOLEAN : handleNewNote(ok)
    \/ handleSave
    \/ \E ok \in BOOLEAN : handleDelete(ok)
    \/ \E r \in reqs : ServerCreate(r)
    \/ \E r \in reqs : ServerUpdate(r)
    \/ \E r \in reqs : ServerDelete(r)
    \/ \E r \in reqs : \E response \in Answers(r) : ListSettled(r, response)
    \/ \E r \in reqs : \E response \in Answers(r) : MutationSettled(r, response)

Spec == Init /\ [][Next]_vars

\* Every request in flight is eventually answered or fails: a promise that
\* can settle does settle.
FairSpec ==
    /\ Spec
    /\ WF_vars(\E r \in reqs : \E response \in Answers(r) : ListSettled(r, response))
    /\ WF_vars(\E r \in reqs : \E response \in Answers(r) : MutationSettled(r, response))

\* ------------------------------------------------- the API client alone

\* What fetch may settle with: any of these statuses, with a JSON content
\* type and a body that parses, with a JSON content type and a body that
\* does not, or with another content type; or a rejection.
Statuses == {200, 201, NoContent, 404, 500}
Bodies ==
    { JsonNull, JsonArray(<<>>),
      JsonObject(1, Undefined, Undefined),
      JsonObject(NoId, "not found", Undefined),
      JsonObject(NoId, "not found", "bad"),
      JsonObject(NoId, "", "bad"),
      JsonObject(NoId, Undefined, "bad"),
      JsonObject(NoId, "", "") }
Texts == {"", "oops"}
Responses ==
    { HttpResponse(st, TRUE, TRUE, b, "") : st \in Statuses, b \in Bodies }
      \cup { HttpResponse(st, j, FALSE, JsonNull, t) :
                st \in Statuses, j \in BOOLEAN, t \in Texts }
      \cup {Rejected}

\* The ids single-note calls are made with.
NoteIds == {1, 2}

\* The environment the client is loaded in and the response fetch will
\* settle with are drawn here; no call has been made.
ApiInit ==
    /\ Mounted
    /\ env \in Envs
    /\ \E response \in Responses : call = Awaiting(response)

\* Each API function called in either module, fetch settling with
\* call.response.
CallListNotes(module) ==
    /\ call' = Call(module, "listNotes", NoId, BaseUrlOf(module, env), "GET",
                    call.response, listNotes(call.response))
    /\ UNCHANGED <<ui, reqs, backend, last, env>>

CallGetNote(module, noteId) ==
    /\ call' = Call(module, "getNote", noteId,
                    NoteUrl(BaseUrlOf(module, env), noteId), "GET",
                    call.response, getNote(call.response))
    /\ UNCHANGED <<ui, reqs, backend, last, env>>

CallCreateNote(module) ==
    /\ call' = Call(module, "createNote", NoId, BaseUrlOf(module, env), "POST",
                    call.response, createNote(call.response))
    /\ UNCHANGED <<ui, reqs, backend, last, env>>

CallUpdateNote(module, noteId) ==
    /\ call' = Call(module, "updateNote", noteId,
                    NoteUrl(BaseUrlOf(module, env), noteId), "PUT",
                    call.response, updateNote(call.response))
    /\ UNCHANGED <<ui, reqs, backend, last, env>>

CallDeleteNote(module, noteId) ==
    /\ call' = Call(module, "deleteNote", noteId,
                    NoteUrl(BaseUrlOf(module, env), noteId), "DELETE",
                    call.response, deleteNote(call.response))
    /\ UNCHANGED <<ui, reqs, backend, last, env>>

ApiNext ==
    \/ \E m \in Modules : CallListNotes(m)
    \/ \E m \in Modules, id \in NoteIds : CallGetNote(m, id)
    \/ \E m \in Modules : CallCreateNote(m)
    \/ \E m \in Modules, id \in NoteIds : CallUpdateNote(m, id)
    \/ \E m \in Modules, id \in NoteIds : CallDeleteNote(m, id)

ApiSpec == ApiInit /\ [][ApiNext]_vars

\* ------------------------------------------------------------- properties

draft == <<draftTitle, draftContent>>

\* The requests a step settles: those in flight before it and not after it.
Settling == reqs \ reqs'
\* The requests a step issues.
Issuing == reqs' \ reqs

\* A note field as the editor shows it.
Shown(v) == IF v = Null THEN <<>> ELSE v

\* The draft is not what the displayed list holds for the selected note, or,
\* with no note selected, has a non-blank field.
DraftDiffers ==
    IF \E i \in 1..Len(notes) : notes[i].id = selectedId
    THEN \E i \in 1..Len(notes) :
            /\ notes[i].id = selectedId
            /\ draft # <<Shown(notes[i].title), Shown(notes[i].content)>>
    ELSE Trim(draftTitle) # <<>> \/ Trim(draftContent) # <<>>

\* As DraftDiffers, but with no note selected any non-empty field counts.
DraftDiffersOrNonEmpty ==
    IF \E i \in 1..Len(notes) : notes[i].id = selectedId
    THEN DraftDiffers
    ELSE draftTitle # <<>> \/ draftContent # <<>>

\* C1: the controller overwrites or clears the draft only if the user
\* accepted a confirmation prompt for the action (the reload of a confirmed
\* Delete included), or the draft had no unsaved changes, or the draft was
\* what a successful Save had sent (its title trimmed) and that Save's
\* reload replaces it.
C1_NoSilentLoss ==
    [][ (draft' # draft /\ last'.op # "other") =>
          \/ last'.confirm = "yes"
          \/ ~DraftDiffers
          \/ /\ last'.op = "listLoaded"
             /\ \E r \in Settling :
                  \/ r.owner = "delete"
                  \/ /\ r.owner = "save"
                     /\ Trim(draftTitle) = r.title
                     /\ draftContent = r.content ]_vars

\* C2: Save with an empty or whitespace-only draft title issues no request,
\* sets the error to "Title is required.", leaves the notes list, the
\* selection and both draft fields unchanged, and isSaving is false after it.
C2_BlankTitleSave ==
    [][ (last'.op = "handleSave" /\ Trim(draftTitle) = <<>>) =>
          /\ reqs' = reqs
          /\ error' = "Title is required."
          /\ notes' = notes
          /\ selectedId' = selectedId
          /\ draft' = draft
          /\ ~isSaving' ]_vars

\* C2 witness: Save has run on a whitespace-only title.
C2_Witness ==
    /\ last.op = "handleSave"
    /\ draftTitle = <<" ">>
    /\ error = "Title is required."

\* What Select note and Start new note owe a draft that needs confirmation:
\* they ask, and a declined prompt leaves selection and draft as they were
\* and issues no request.
AsksBeforeDiscarding ==
    /\ last'.confirm # "none"
    /\ last'.confirm = "no" =>
         /\ selectedId' = selectedId
         /\ draft' = draft
         /\ reqs' = reqs

\* C3 (as claimed): Select and New ask for confirmation whenever the draft
\* differs from the selected note or, with nothing selected, either draft
\* field is non-empty; a declined prompt changes nothing and issues no
\* request.
C3_AsksWhenNonEmpty ==
    [][ (last'.op \in {"selectNote", "handleNewNote"} /\ DraftDiffersOrNonEmpty)
          => AsksBeforeDiscarding ]_vars

\* C3 (amended): Select and New ask for confirmation whenever the draft
\* differs from the selected note or, with nothing selected, either draft
\* field is non-blank (has a character that is not whitespace); a declined
\* prompt changes nothing and issues no request.
C3_AsksWhenNonBlank ==
    [][ (last'.op \in {"selectNote", "handleNewNote"} /\ DraftDiffers)
          => AsksBeforeDiscarding ]_vars

\* C3 witness: the user declined the prompt of Select on an edited draft.
C3_Witness ==
    /\ last.op = "selectNote"
    /\ last.confirm = "no"
    /\ DraftDiffers

\* C4: selecting note N of the displayed list with no unsaved changes never
\* prompts and gives selection N.id, draft title N.title and draft content
\* N.content (a missing field shown as the empty string); the notes list is
\* unchanged and no request is issued.
C4_SelectRepopulates ==
    [][ (last'.op = "selectNote" /\ ~DraftDiffers) =>
          /\ last'.confirm = "none"
          /\ \E i \in 1..Len(notes) :
               /\ notes[i].id = last'.id
               /\ selectedId' = notes[i].id
               /\ draftTitle' = Shown(notes[i].title)
               /\ draftContent' = Shown(notes[i].content)
          /\ notes' = notes
          /\ reqs' = reqs ]_vars

\* C4 witness: a note without title and content was selected with no prompt.
C4_Witness ==
    /\ last.op = "selectNote"
    /\ last.confirm = "none"
    /\ selectedId = last.id
    /\ \E i \in 1..Len(notes) :
         notes[i].id = selectedId /\ notes[i].title = Null /\ notes[i].content = Null
    /\ draft = << <<>>, <<>> >>

\* The selection a load with preferred id p owes the list it displays: p if
\* a note of the list has that id, else the first note's id, else none.
Preferred(list, p) ==
    IF p # NoId /\ \E i \in 1..Len(list) : list[i].id = p THEN p
    ELSE IF Len(list) > 0 THEN list[1].id
    ELSE NoId

\* updated_at as a time, a missing one counting as 0.
Stamp(n) == IF n.updated_at = NoTime THEN 0 ELSE n.updated_at

NonIncreasing(list) ==
    \A i, j \in 1..Len(list) : i < j => Stamp(list[i]) >= Stamp(list[j])

\* C5: after every successful list load with preferred id P the displayed
\* list is the fetched one (what the backend held, or nothing for a body
\* that is no array) sorted descending by updated_at; the selection is P if
\* a fetched note has that id, else the first note of the sorted list, else
\* none; the draft equals the selected note's title and content, or is
\* empty with nothing selected, so has-unsaved-changes is false.
C5_LoadSelects ==
    [][ last'.op = "listLoaded" =>
          \A r \in Settling :
            /\ { notes'[i] : i \in 1..Len(notes') } \in {r.snap, server, {}}
            /\ NonIncreasing(notes')
            /\ selectedId' = Preferred(notes', r.next)
            /\ \A i \in 1..Len(notes') :
                 notes'[i].id = selectedId' =>
                   draft' = <<Shown(notes'[i].title), Shown(notes'[i].content)>>
            /\ selectedId' = NoId => draft' = << <<>>, <<>> >>
            /\ ~hasUnsavedChanges' ]_vars

\* C5 witness: the list {id 1, no updated_at}, {id 2, newer} was loaded,
\* is displayed in the order [2, 1] and note 2 is selected.
C5_Witness ==
    /\ last.op = "listLoaded"
    /\ Len(notes) = 2
    /\ notes[1].id = 2 /\ notes[2].id = 1
    /\ Stamp(notes[1]) > Stamp(notes[2])
    /\ selectedId = 2

\* C6: the displayed notes list is always ordered non-increasing by
\* updated_at, a missing updated_at counting as time 0.
C6_DisplayedSorted == NonIncreasing(notes)

\* C6 witness: two notes of different times are displayed, the one without
\* updated_at last.
C6_Witness ==
    /\ Len(notes) = 2
    /\ notes[2].updated_at = NoTime
    /\ Stamp(notes[1]) > 0

\* C7: a failed create or update of a Save changes neither the selection,
\* nor the draft, nor the notes list; the error becomes the thrown error's
\* message ("not found" for the 404 with {detail: "not found"}, the
\* rejection's message for a network failure, which is all a request the
\* backend has handled can fail with); no list reload is issued.
C7_SaveFailure ==
    [][ last'.op = "saveFailed" =>
          /\ selectedId' = selectedId
          /\ draft' = draft
          /\ notes' = notes
          /\ Issuing = {}
          /\ \A r \in Settling :
               /\ r.kind \in {"create", "update"}
               /\ error' \in {"not found", "Failed to fetch"}
               /\ r.phase = "done" => error' = "Failed to fetch" ]_vars

\* C7 witness: an update was answered 404 {detail: "not found"} while the
\* draft held unsaved edits, which are still there.
C7_Witness ==
    /\ last.op = "saveFailed"
    /\ error = "not found"
    /\ selectedId # NoId
    /\ DraftDiffers

\* C8: Save with a non-blank trimmed title issues exactly one request, a
\* create when no note is selected and otherwise an update of the selected
\* id, with the payload {title: the trimmed draft title, content: the draft
\* content}; no later step of the Save (nor any other step) issues a create
\* or an update.
C8_SaveRequest ==
    [][ /\ (last'.op = "handleSave" /\ Trim(draftTitle) # <<>>) =>
             /\ Cardinality(Issuing) = 1
             /\ Settling = {}
             /\ \A r \in Issuing :
                  /\ r.kind = IF selectedId = NoId THEN "create" ELSE "update"
                  /\ r.id = selectedId
                  /\ r.title = Trim(draftTitle)
                  /\ r.content = draftContent
                  /\ r.phase = "sent"
        /\ \A r \in Issuing :
             (r.kind \in {"create", "update"} /\ r.phase = "sent")
               => last'.op = "handleSave" ]_vars

\* C8 witness: Save of a selected note whose draft title has a leading
\* space has sent an update with the trimmed title.
C8_Witness ==
    /\ last.op = "handleSave"
    /\ draftTitle = <<" ", "a">>
    /\ \E r \in reqs : r.kind = "update" /\ r.id = selectedId /\ r.title = <<"a">>

\* C9: the reload after a successful Save is given the updated id, or the
\* id of the create response (none if it carries no id), and once it has
\* loaded the selection is that id if the reloaded list has it, else the
\* first note of the list, else none, whatever the selection was meanwhile.
C9_SavedNoteSelected ==
    [][ /\ last'.op = "mutationDone" =>
             \A r \in Settling :
               r.owner = "save" =>
                 /\ Cardinality(Issuing) = 1
                 /\ \A l \in Issuing :
                      /\ l.kind = "list" /\ l.owner = "save"
                      /\ l.next \in IF r.kind = "update" THEN {r.id}
                                    ELSE {r.made, NoId}
        /\ last'.op = "listLoaded" =>
             \A l \in Settling :
               l.owner = "save" => selectedId' = Preferred(notes', l.next) ]_vars

\* C9 witness: after the reload of a create the new note is selected though
\* it is not the first of the list.
C9_Witness ==
    /\ last.op = "listLoaded"
    /\ Len(notes) = 2
    /\ selectedId = notes[2].id
    /\ selectedId = nextId - 1

\* C10: Delete with nothing selected does not prompt, issues no request and
\* changes nothing but the error, which it clears; with a note selected it
\* prompts, issues a delete request for the selected id if the user
\* confirms, and on a declined prompt issues no request and leaves notes,
\* selection and draft unchanged.
C10_Delete ==
    [][ last'.op = "handleDelete" =>
          /\ error' = ""
          /\ notes' = notes /\ selectedId' = selectedId /\ draft' = draft
          /\ Settling = {}
          /\ IF selectedId = NoId
             THEN /\ last'.confirm = "none"
                  /\ Issuing = {}
                  /\ <<isLoadingList, isSaving, isDeleting>>'
                       = <<isLoadingList, isSaving, isDeleting>>
             ELSE /\ last'.confirm # "none"
                  /\ last'.confirm = "no" => Issuing = {}
                  /\ last'.confirm = "yes" =>
                       /\ Cardinality(Issuing) = 1
                       /\ \A r \in Issuing :
                            r.kind = "delete" /\ r.id = selectedId ]_vars

\* C10 witness: Delete ran with nothing selected.
C10_Witness ==
    /\ last.op = "handleDelete"
    /\ last.confirm = "none"
    /\ selectedId = NoId
    /\ reqs = {}

\* C11: right after the reload of a successful create is applied (the
\* backend answering the list fetch with an array), the displayed list
\* contains the created note; right after the reload of a successful delete
\* of id D is applied, the displayed list has no note with id D and the
\* selection is the first note of the list, or none for an empty list.
C11_ReloadReflects ==
    [][ (last'.op = "listLoaded" /\ last'.got = "array") =>
          \A l \in Settling :
            /\ (l.owner = "save" /\ l.made # NoId) =>
                 \E i \in 1..Len(notes') : notes'[i].id = l.made
            /\ l.owner = "delete" =>
                 /\ \A i \in 1..Len(notes') : notes'[i].id # l.id
                 /\ selectedId' = IF notes' = <<>> THEN NoId ELSE notes'[1].id
                 /\ NonIncreasing(notes') ]_vars

\* C11 witness: the reload of a create has been applied and the list shows
\* the note the backend created under id 2 with the title that was saved.
C11_Witness ==
    /\ last.op = "listLoaded" /\ last.got = "array"
    /\ reqs = {}
    /\ \E i \in 1..Len(notes) : notes[i].id = 2 /\ notes[i].title = <<"a">>

\* C12: the displayed notes list changes only in a step that applies a
\* successful list fetch: edits, Select, New, Save and Delete before, while
\* and after their requests, the backend's own steps and every failed
\* request leave it as it was.
C12_NoOptimisticChange ==
    [][ /\ notes' # notes => last'.op = "listLoaded"
        /\ last'.op \in {"other", "selectNote", "handleNewNote", "handleSave",
                         "handleDelete", "mutationDone", "saveFailed",
                         "deleteFailed", "listFailed"} => notes' = notes ]_vars

\* C12 witness: the backend has deleted a note and the Delete has resumed,
\* yet the list still shows the note, the reload not having arrived.
C12_Witness ==
    /\ last.op = "mutationDone"
    /\ isDeleting
    /\ \E i \in 1..Len(notes) : ~Holds(notes[i].id)

\* The message a failed response must surface: for a JSON content type the
\* body's detail if truthy, else its message if truthy; for another content
\* type the text if non-empty; else the fallback with the status.
MessageDue(response) ==
    LET fallback == "Request failed (" \o ToString(response.status) \o ")"
        has(v) == v \notin {Undefined, ""}
    IN CASE response.isJson /\ response.parses /\ has(response.body.detail)
              -> response.body.detail
         [] response.isJson /\ response.parses /\ ~has(response.body.detail)
              /\ has(response.body.message)
              -> response.body.message
         [] ~response.isJson /\ response.text # ""
              -> response.text
         [] OTHER -> fallback

IsSuccess(response) == response.status \in 200..299

\* An API function has been called and fetch settled with a response.
Answered == call.fn # "none" /\ ~call.response.rejected

\* C13: for every non-2xx response each API function throws, never returns,
\* and the error's message is the JSON body's detail if truthy, else its
\* message if truthy, else "Request failed (<status>)" (also for a JSON body
\* that does not parse); for a non-JSON content type the response text if
\* non-empty, else the same fallback.
C13_ErrorMessage ==
    (Answered /\ ~IsSuccess(call.response)) =>
        /\ call.result.threw
        /\ call.result.message = MessageDue(call.response)

\* C13 witness: an update was answered 404 with a JSON body whose detail is
\* empty and whose message is "bad", and threw "bad".
C13_Witness ==
    /\ call.fn = "updateNote"
    /\ call.response.status = 404
    /\ call.response.isJson /\ call.response.parses
    /\ call.response.body.detail = "" /\ call.response.body.message = "bad"
    /\ call.result.threw /\ call.result.message = "bad"

ReturnedNull(result) == ~result.threw /\ result.value.type = "null"

\* A DELETE answered 204, which deleteNote does not hand to the parser.
Delete204 == call.fn = "deleteNote" /\ call.response.status = 204

\* What handleDelete is resumed with is the same for a 204 of any content
\* type and for a 200 with a body that is not JSON.
SameForController ==
    \A r \in { Request("delete", "delete", id, <<>>, <<>>, NoId) : id \in NoteIds },
       a \in { x \in Responses : ~x.rejected /\ x.status = 204 } :
         Settle(r, a) = Settle(r, HttpResponse(200, FALSE, FALSE, JsonNull, ""))

\* C14 as stated: for every 2xx response the client returns the parsed body
\* when the content type indicates JSON and null otherwise, deleteNote
\* returning null for a 204 whatever its content type and body.
C14_SuccessReturns ==
    (Answered /\ IsSuccess(call.response)) =>
        IF Delete204 THEN ReturnedNull(call.result)
        ELSE IF call.response.isJson
             THEN ~call.result.threw /\ call.result.value = call.response.body
             ELSE ReturnedNull(call.result)

\* C14 amended: for every 2xx response the client returns the parsed body
\* when the content type indicates JSON and the body parses, throws the
\* parser's error (not the "Request failed" fallback) when the content type
\* indicates JSON and the body does not parse, and returns null otherwise;
\* deleteNote returns null for a 204 without parsing, so a 204 DELETE and a
\* 2xx DELETE with a non-JSON body resume the controller with the same
\* result.
C14_SuccessReturnsParsed ==
    /\ (Answered /\ IsSuccess(call.response)) =>
          IF Delete204 THEN ReturnedNull(call.result)
          ELSE IF call.response.isJson /\ call.response.parses
               THEN ~call.result.threw /\ call.result.value = call.response.body
          ELSE IF call.response.isJson
               THEN /\ call.result.threw
                    /\ call.result.message # MessageDue(call.response)
          ELSE ReturnedNull(call.result)
    /\ SameForController

\* C14 witness: a DELETE was answered 204 with a JSON content type and no
\* body that parses, and deleteNote returned null.
C14_Witness ==
    /\ Delete204
    /\ call.response.isJson /\ ~call.response.parses
    /\ ReturnedNull(call.result)

\* The base URL the environment asks for: the full-base override if it is
\* non-blank, else the non-blank origin override without one trailing slash
\* followed by /api/notes, else http://localhost:3001/api/notes.
BaseUrlDue ==
    LET full == Trim(env.REACT_APP_API_BASE)
        origin == Trim(env.REACT_APP_BACKEND_URL)
        cut(o) == IF o[Len(o)] = "/" THEN SubSeq(o, 1, Len(o) - 1) ELSE o
    IN IF full # <<>> THEN full
       ELSE IF origin # <<>> THEN cut(origin) \o <<"/api/notes">>
       ELSE <<"http://localhost:3001", "/api/notes">>

UrlDue ==
    IF call.fn \in {"getNote", "updateNote", "deleteNote"}
    THEN BaseUrlDue \o <<"/", ToString(call.id)>>
    ELSE BaseUrlDue

\* C15: every API call fetches the base URL the environment asks for
\* (REACT_APP_API_BASE if non-blank, else REACT_APP_BACKEND_URL if non-blank
\* without one trailing slash plus /api/notes, else
\* http://localhost:3001/api/notes), single-note calls with /{id} appended.
C15_BaseUrl == call.fn # "none" => call.url = UrlDue

\* C15 restricted to the functions of notesApi.js, which resolve the base
\* URL from the environment.
BaseUrlOfNotesApi == (call.fn # "none" /\ call.module = "notesApi") => call.url = UrlDue

IsList(r) == r.kind = "list"

\* C16: within one Save or Delete the requests are sequential: a list fetch
\* is issued only in the step in which the action's create, update or
\* delete request, handled by the backend, completes successfully; exactly
\* one list fetch is issued then, for the same action; none is issued when
\* the request fails; and an action's list fetch is never in flight
\* together with its mutating request.
C16_Sequential ==
    [][ /\ \A l \in Issuing :
             IsList(l) =>
               /\ last'.op = "mutationDone"
               /\ \E r \in Settling :
                    ~IsList(r) /\ r.phase = "done" /\ r.owner = l.owner
        /\ last'.op = "mutationDone" =>
             /\ Cardinality(Issuing) = 1
             /\ Cardinality(Settling) = 1
             /\ \A l \in Issuing : IsList(l)
        /\ last'.op \in {"saveFailed", "deleteFailed"} =>
             /\ Issuing = {}
             /\ \A r \in Settling : \A l \in reqs' : l.owner # r.owner
        /\ \A l, r \in reqs' :
             (IsList(l) /\ ~IsList(r)) => l.owner # r.owner ]_vars

\* C16 witness: a Save's update has completed and its list fetch, and
\* nothing else, is in flight.
C16_Witness ==
    /\ last.op = "mutationDone"
    /\ isSaving
    /\ Cardinality(reqs) = 1
    /\ \E l \in reqs : IsList(l) /\ l.owner = "save" /\ l.id # NoId

Mutating == { r \in reqs : ~IsList(r) }

\* C17: at most one create, update or delete request is in flight; as long
\* as a request of a Save (of a Delete), its reload included, is in flight
\* isSaving (isDeleting) is set; and while either flag is set neither Save
\* nor Delete can be started, whereas draft edits, New and Select (of any
\* displayed note) can.
C17_OneMutation ==
    /\ Cardinality(Mutating) <= 1
    /\ \A r \in reqs :
         /\ r.owner = "save" => isSaving
         /\ r.owner = "delete" => isDeleting
    /\ (isSaving \/ isDeleting) =>
         /\ ~ENABLED handleSave
         /\ \A ok \in BOOLEAN : ~ENABLED handleDelete(ok)
         /\ \A v \in TitleInputs : ENABLED EditTitle(v)
         /\ \A v \in ContentInputs : ENABLED EditContent(v)
         /\ \A ok \in BOOLEAN : ENABLED handleNewNote(ok)
         /\ \A i \in 1..Len(notes), ok \in BOOLEAN : ENABLED selectNote(i, ok)

\* C17 witness: the user has switched notes while the Save's request is in
\* flight.
C17_Witness ==
    /\ isSaving
    /\ last.op = "selectNote" /\ last.id # NoId
    /\ Cardinality(Mutating) = 1

Displayed == { notes[i] : i \in 1..Len(notes) }

\* C18: the response of an older list fetch never overwrites what a newer
\* one has set: when the displayed list holds exactly the notes the backend
\* holds while the initial fetch is the only request still in flight (so a
\* fetch issued after it has been applied), applying the initial fetch's
\* response, an array, leaves the displayed list holding exactly the notes
\* the backend holds.
C18_NoStaleOverwrite ==
    [][ (last'.op = "listLoaded" /\ last'.got = "array" /\ reqs' = {}) =>
          \A r \in Settling :
            (r.owner = "init" /\ Displayed = server) => Displayed' = server' ]_vars

\* C19: the selection is none or the id of a note of the displayed list.
C19_NoDanglingSelection ==
    selectedId = NoId \/ \E n \in Displayed : n.id = selectedId

\* C19 witness: after a Save created note 2, a load has been applied whose
\* list holds note 1 only; note 1 is selected and no request is in flight.
C19_Witness ==
    /\ last.op = "listLoaded" /\ last.got = "array"
    /\ reqs = {}
    /\ Holds(2) /\ clock = 1
    /\ Len(notes) = 1 /\ notes[1].id = 1 /\ selectedId = 1

\* C20: if every request in flight eventually succeeds or fails, a Save
\* that has set isSaving and a Delete that has set isDeleting eventually
\* reset it, whether the request, the reload or neither fails; and
\* isLoadingList is false whenever no list fetch is in flight.
C20_FlagsReset ==
    /\ (isSaving \/ isDeleting) ~> (~isSaving /\ ~isDeleting)
    /\ []((\A r \in reqs : ~IsList(r)) => ~isLoadingList)

\* C20 witness: a Save created note 2 and a list fetch failed last; nothing
\* is in flight any more and all three flags are false.
C20_Witness ==
    /\ last.op = "listFailed"
    /\ reqs = {}
    /\ \E n \in server : n.id = 2 /\ n.title = <<"a">>
    /\ notes = <<>>
    /\ ~isSaving /\ ~isDeleting /\ ~isLoadingList

====
